---- MODULE Spec2Model ----
(***************************************************************************)
(* Generic vector (src/src/gen_vector.c) and the byte string built on it   *)
(* (src/src/String.c).                                                     *)
(*                                                                         *)
(* A genVec is a record of the struct's fields.  Its storage `data` is the *)
(* sequence of the slots of the allocated block (one entry per element     *)
(* slot, Len(data) = capacity); the empty sequence is the NULL pointer.    *)
(* An element is an opaque unit of data_size bytes, modelled as one value. *)
(* A slot that was allocated and never written holds U.                    *)
(*                                                                         *)
(* Every operation of the library is a pure operator over a "call frame":  *)
(* the struct's fields together with the observable effects of the call    *)
(* (destructor invocations, out-of-block writes, the caller's out buffer,  *)
(* the return value, the object returned).  The actions apply the          *)
(* operators to the state.                                                 *)
(***************************************************************************)
EXTENDS Integers, Sequences, FiniteSets, TLC

VARIABLES
    vec,    \* the genVec under test (struct fields)
    str,    \* the String under test: [buffer |-> genVec]
    prev,   \* the object (vec or str) as it was when the last call was made
    last,   \* the last call: its name and arguments
    eff,    \* the observable effects of the last call
    saved,  \* snapshot taken by a two-call scenario (remove then insert)
    cpy,    \* the vector returned by genVec_copy(vec), once one was taken
    ledger  \* destructor bookkeeping over the lifetime of vec

vars == <<vec, str, prev, last, eff, saved, cpy, ledger>>

-----------------------------------------------------------------------------
(* Bounds of the model *)

MaxCap == 6         \* calls that would take capacity beyond this are not made
MaxInitCap == 2     \* genVec_init is called with n in 0..MaxInitCap
MaxMulti == 2       \* insert_multi is called with at most this many elements

Elem == {1, 2}                  \* two element values tell any two slots apart
Index(v) == 0..(v.size + 1)     \* index arguments: every live slot, size, size + 1
Multi == UNION {[1..n -> Elem] : n \in 0..MaxMulti}

-----------------------------------------------------------------------------
(* Memory *)

NULL == << >>
U == -1             \* content of a slot that was never written
Untouched == -3     \* the caller's out buffer, as long as nothing was copied to it
NoVec == [null |-> TRUE]    \* a NULL genVec* / String* result

malloc(n) == [k \in 1..n |-> U]

\* realloc keeps the first min(old, new) slots; a failed realloc is modelled
\* by the caller (the block is then untouched).
realloc(data, n) == [k \in 1..n |-> IF k <= Len(data) THEN data[k] ELSE U]

\* The n slots from slot `src` on (slots are numbered from 0, as in C).
slots(m, src, n) ==
    [k \in 1..n |-> IF src + k <= Len(m.data) THEN m.data[src + k] ELSE U]

\* Copy `vals` to the slots from `at` on.  A slot at index >= capacity lies
\* outside the block: the write is recorded in oob.
memcpy(m, at, vals) ==
    [m EXCEPT
        !.data = [k \in 1..Len(m.data) |->
                    IF k - 1 >= at /\ k - 1 < at + Len(vals)
                    THEN vals[k - at] ELSE m.data[k]],
        !.oob = m.oob \/ (Len(vals) > 0 /\ at + Len(vals) > Len(m.data))]

\* Mutant: a copy that runs slot by slot from the low end, as memcpy may,
\* and so overwrites its own source when the ranges overlap.
memmove_mut(m, dest, src, n) ==
    LET RECURSIVE loop(_, _)
        loop(f, k) == IF k < n THEN loop(memcpy(f, dest + k, slots(f, src + k, 1)), k + 1)
                      ELSE f
    IN loop(m, 0)

\* memmove reads the whole source range before writing.
memmove(m, dest, src, n) == memcpy(m, dest, slots(m, src, n))

\* vec->del_fn(element) on the slot at index i.
del_fn_call(m, i) == [m EXCEPT !.dlog = Append(m.dlog, <<i, slots(m, i, 1)[1]>>)]

-----------------------------------------------------------------------------
(* Call frames *)

NoEffect ==
    [dlog |-> << >>, oob |-> FALSE, out |-> Untouched, ret |-> 0, res |-> NoVec]

Frame(v) ==
    [data |-> v.data, size |-> v.size, capacity |-> v.capacity,
     data_size |-> v.data_size, del_fn |-> v.del_fn,
     dlog |-> << >>, oob |-> FALSE, out |-> Untouched, ret |-> 0, res |-> NoVec]

Struct(m) ==
    [data |-> m.data, size |-> m.size, capacity |-> m.capacity,
     data_size |-> m.data_size, del_fn |-> m.del_fn]

\* The live elements, in order.
Live(v) == SubSeq(v.data, 1, v.size)

Effects(m) ==
    [dlog |-> m.dlog, oob |-> m.oob, out |-> m.out, ret |-> m.ret, res |-> m.res]

-----------------------------------------------------------------------------
(* gen_vector.c: the scaling factors.  The code computes                   *)
(* (size_t)((double)capacity * F); for the capacities of the model the     *)
(* product is exact in a double and the cast truncates, so it is the       *)
(* integer quotient below.                                                 *)

GROWTH(capacity) == (capacity * 3) \div 2       \* capacity * 1.5

\* Mutant: the shrink check fires at half occupancy.
SHRINK_AT_mut(capacity) == capacity \div 2

SHRINK_AT(capacity) == capacity \div 4          \* capacity * 0.25
SHRINK_BY(capacity) == capacity \div 2          \* capacity * 0.5

NoArg == -2         \* a NULL element pointer passed as argument

-----------------------------------------------------------------------------
(* gen_vector.c: the operations.  `ok` is the outcome of the one           *)
(* allocation the call may make.                                           *)

genVec_init(n, data_size, del_fn, ok) ==
    IF data_size = 0 THEN NoVec
    ELSE IF n > 0 /\ ~ok THEN NoVec
    ELSE [data |-> IF n > 0 THEN malloc(n) ELSE NULL,
          size |-> 0, capacity |-> n, data_size |-> data_size, del_fn |-> del_fn]

genVec_init_val(n, val, data_size, del_fn, ok) ==
    IF val = NoArg THEN NoVec
    ELSE LET v == genVec_init(n, data_size, del_fn, ok) IN
         IF v = NoVec THEN NoVec
         ELSE IF n = 0 THEN v
         ELSE [v EXCEPT !.size = n, !.data = [k \in 1..n |-> val]]

\* Mutant: the small-capacity rule applied up to and including 4.
genVec_grow_mut(m, ok) ==
    LET new_cap == IF m.capacity <= 4 THEN m.capacity + 1 ELSE GROWTH(m.capacity) IN
    IF ~ok THEN m
    ELSE [m EXCEPT !.data = realloc(m.data, new_cap), !.capacity = new_cap]

genVec_grow(m, ok) ==
    LET new_cap == IF m.capacity < 4 THEN m.capacity + 1 ELSE GROWTH(m.capacity) IN
    IF ~ok THEN m
    ELSE [m EXCEPT !.data = realloc(m.data, new_cap), !.capacity = new_cap]

\* Mutant: the check for a target of zero is missing.
genVec_shrink_mut(m, ok) ==
    LET reduced_cap == SHRINK_BY(m.capacity) IN
    IF reduced_cap < m.size THEN m
    ELSE IF ~ok THEN m
    ELSE [m EXCEPT !.data = realloc(m.data, reduced_cap), !.capacity = reduced_cap]

genVec_shrink(m, ok) ==
    LET reduced_cap == SHRINK_BY(m.capacity) IN
    IF reduced_cap < m.size \/ reduced_cap = 0 THEN m
    ELSE IF ~ok THEN m
    ELSE [m EXCEPT !.data = realloc(m.data, reduced_cap), !.capacity = reduced_cap]

genVec_clear(m) ==
    LET RECURSIVE loop(_, _)
        loop(f, i) == IF i < f.size THEN loop(del_fn_call(f, i), i + 1) ELSE f
        d == IF m.del_fn THEN loop(m, 0) ELSE m
    IN [d EXCEPT !.data = NULL, !.size = 0, !.capacity = 0]

\* Mutant: the destructor loop runs over every slot of the block.
genVec_destroy_mut(m) ==
    LET RECURSIVE loop(_, _)
        loop(f, i) == IF i < f.capacity THEN loop(del_fn_call(f, i), i + 1) ELSE f
        d == IF m.del_fn THEN loop(m, 0) ELSE m
    IN [d EXCEPT !.data = NULL]

\* The frame as it is when the struct itself is freed; the caller's pointer
\* is dead after the call.
genVec_destroy(m) ==
    LET RECURSIVE loop(_, _)
        loop(f, i) == IF i < f.size THEN loop(del_fn_call(f, i), i + 1) ELSE f
        d == IF m.del_fn THEN loop(m, 0) ELSE m
    IN [d EXCEPT !.data = NULL]

\* Mutant: the "only grow" check is missing.
genVec_reserve_mut(m, new_capacity, ok) ==
    IF ~ok THEN m
    ELSE [m EXCEPT !.data = realloc(m.data, new_capacity), !.capacity = new_capacity]

genVec_reserve(m, new_capacity, ok) ==
    IF new_capacity <= m.capacity THEN m
    ELSE IF ~ok THEN m
    ELSE [m EXCEPT !.data = realloc(m.data, new_capacity), !.capacity = new_capacity]

genVec_push(m, data, ok) ==
    LET g == IF m.size >= m.capacity \/ m.data = NULL THEN genVec_grow(m, ok) ELSE m IN
    IF g.data = NULL THEN g
    ELSE [memcpy(g, g.size, <<data>>) EXCEPT !.size = g.size + 1]

\* Mutant: the destructor runs on the popped element even when it was copied
\* to the caller's out buffer.
genVec_pop_mut(m, popped, ok) ==
    IF m.size = 0 THEN [m EXCEPT !.ret = -1]
    ELSE LET last_elm == m.size - 1
             o == IF popped THEN [m EXCEPT !.out = m.data[last_elm + 1]] ELSE m
             c == IF m.del_fn THEN del_fn_call(o, last_elm) ELSE o
             d == [c EXCEPT !.size = c.size - 1]
         IN IF d.size <= SHRINK_AT(d.capacity) THEN genVec_shrink(d, ok) ELSE d

\* `popped` tells whether the caller passed an out buffer.
genVec_pop(m, popped, ok) ==
    IF m.size = 0 THEN [m EXCEPT !.ret = -1]
    ELSE LET last_elm == m.size - 1
             c == IF popped THEN [m EXCEPT !.out = m.data[last_elm + 1]]
                  ELSE IF m.del_fn THEN del_fn_call(m, last_elm)
                  ELSE m
             d == [c EXCEPT !.size = c.size - 1]
         IN IF d.size <= SHRINK_AT(d.capacity) THEN genVec_shrink(d, ok) ELSE d

genVec_get(m, i, out) ==
    IF i >= m.size THEN m
    ELSE IF ~out THEN m
    ELSE [m EXCEPT !.out = m.data[i + 1]]

genVec_insert(m, i, data, ok) ==
    IF data = NoArg THEN m
    ELSE IF i > m.size THEN m
    ELSE IF i = m.size THEN genVec_push(m, data, ok)
    ELSE LET g == IF m.size >= m.capacity \/ m.data = NULL
                  THEN genVec_grow(m, ok) ELSE m
             elements_to_shift == g.size - i
             s == memmove(g, i + 1, i, elements_to_shift)
         IN [memcpy(s, i, <<data>>) EXCEPT !.size = g.size + 1]

\* Mutant: storage is reserved for the new elements only, not for the new size.
genVec_insert_multi_mut(m, i, data, num_data, ok) ==
    IF data = NULL \/ num_data = 0 THEN m
    ELSE IF i > m.size THEN m
    ELSE LET elements_to_shift == m.size - i
             r == genVec_reserve([m EXCEPT !.size = m.size + num_data], num_data, ok)
         IN IF r.data = NULL THEN [r EXCEPT !.size = r.size - num_data]
            ELSE LET s == IF elements_to_shift > 0
                          THEN memmove(r, i + num_data, i, elements_to_shift)
                          ELSE r
                 IN memcpy(s, i, SubSeq(data, 1, num_data))

\* `data` is the caller's array (NULL when absent), num_data <= Len(data).
genVec_insert_multi(m, i, data, num_data, ok) ==
    IF data = NULL \/ num_data = 0 THEN m
    ELSE IF i > m.size THEN m
    ELSE LET elements_to_shift == m.size - i
             r == genVec_reserve([m EXCEPT !.size = m.size + num_data],
                                 m.size + num_data, ok)
         IN IF r.data = NULL THEN [r EXCEPT !.size = r.size - num_data]
            ELSE LET s == IF elements_to_shift > 0
                          THEN memmove(r, i + num_data, i, elements_to_shift)
                          ELSE r
                 IN memcpy(s, i, SubSeq(data, 1, num_data))

\* Mutant: the elements are shifted from one slot too far.
genVec_remove_mut(m, i, ok) ==
    IF i >= m.size THEN m
    ELSE LET c == IF m.del_fn THEN del_fn_call(m, i) ELSE m
             elements_to_shift == c.size - i - 1
             s == IF elements_to_shift > 0
                  THEN memmove(c, i, i + 2, elements_to_shift)
                  ELSE c
             d == [s EXCEPT !.size = s.size - 1]
         IN IF d.size <= SHRINK_AT(d.capacity) THEN genVec_shrink(d, ok) ELSE d

genVec_remove(m, i, ok) ==
    IF i >= m.size THEN m
    ELSE LET c == IF m.del_fn THEN del_fn_call(m, i) ELSE m
             elements_to_shift == c.size - i - 1
             s == IF elements_to_shift > 0
                  THEN memmove(c, i, i + 1, elements_to_shift)
                  ELSE c
             d == [s EXCEPT !.size = s.size - 1]
         IN IF d.size <= SHRINK_AT(d.capacity) THEN genVec_shrink(d, ok) ELSE d

\* Mutant: the bounds check lets i = size through.
genVec_replace_mut(m, i, data) ==
    IF i > m.size THEN m
    ELSE IF data = NoArg THEN m
    ELSE LET c == IF m.del_fn THEN del_fn_call(m, i) ELSE m
         IN memcpy(c, i, <<data>>)

genVec_replace(m, i, data) ==
    IF i >= m.size THEN m
    ELSE IF data = NoArg THEN m
    ELSE LET c == IF m.del_fn THEN del_fn_call(m, i) ELSE m
         IN memcpy(c, i, <<data>>)

genVec_front(m) ==
    IF m.size = 0 THEN m ELSE [m EXCEPT !.out = m.data[1]]

genVec_back(m) ==
    IF m.size = 0 THEN m ELSE [m EXCEPT !.out = m.data[m.size]]

genVec_size(v) == IF v = NoVec THEN 0 ELSE v.size

\* No copy of vec was taken.
NoCopy == [vec |-> NoVec, shared |-> FALSE]

\* Mutant: the struct is duplicated, data pointer included, so the copy uses
\* the block of its source.
genVec_copy_mut(src, ok) ==
    IF ~ok THEN NoCopy ELSE [vec |-> Struct(src), shared |-> TRUE]

\* The vector returned (NoCopy for NULL).  `shared` tells whether its data
\* pointer is the block of src: it is the block genVec_init allocated.
genVec_copy(src, ok) ==
    LET v == genVec_init(src.size, src.data_size, src.del_fn, ok) IN
    IF v = NoVec THEN NoCopy
    ELSE IF src.size = 0 THEN [vec |-> v, shared |-> FALSE]
    ELSE IF src.data = NULL \/ v.data = NULL THEN NoCopy
    ELSE [vec |-> [Struct(memcpy(Frame(v), 0, slots(src, 0, src.size)))
                       EXCEPT !.size = src.size],
          shared |-> FALSE]

-----------------------------------------------------------------------------
(* The genVec under test: construction *)

NoSnapshot == [phase |-> 0, vec |-> NoVec, i |-> 0]

\* No element was stored yet: `next` is the identity the next stored element
\* gets, `destroyed` the destructor invocations so far (one entry per
\* invocation), `handed` the elements given to the caller by a pop.
NoLedger == [next |-> 1, destroyed |-> << >>, handed |-> {}]

Call(op, i, data, n, out, ok) ==
    [op |-> op, i |-> i, data |-> data, n |-> n, out |-> out, ok |-> ok]

InitVecs ==
    {genVec_init(n, 1, d, TRUE) : n \in 0..MaxInitCap, d \in BOOLEAN}
    \cup {genVec_init_val(n, e, 1, d, TRUE) : n \in 0..MaxInitCap, e \in Elem, d \in BOOLEAN}

NoCall == Call("none", 0, NULL, 0, FALSE, TRUE)

Init ==
    /\ vec \in InitVecs
    /\ str = NoVec
    /\ prev = vec
    /\ last = Call("init", 0, NULL, 0, FALSE, TRUE)
    /\ eff = NoEffect
    /\ saved = NoSnapshot
    /\ cpy = NoCopy
    /\ ledger = NoLedger

-----------------------------------------------------------------------------
(* The genVec under test: one action per public operation.  prev, last and *)
(* eff describe the call that has just returned; the caller looks at them  *)
(* and drops them (Forget) before it makes its next call.  No call follows *)
(* an out-of-block write (the heap is corrupted: nothing is defined any    *)
(* more), and no call is made that would take the capacity beyond MaxCap.  *)

Idle == last = NoCall

Forget ==
    /\ ~Idle
    /\ ~eff.oob
    /\ saved.phase # 1
    /\ last' = NoCall
    /\ eff' = NoEffect
    /\ prev' = IF str = NoVec THEN vec ELSE str
    /\ saved' = NoSnapshot
    /\ UNCHANGED <<vec, str, cpy, ledger>>

Returns(m, call) ==
    /\ Idle
    /\ saved.phase = 0
    /\ m.capacity <= MaxCap
    /\ vec' = Struct(m)
    /\ eff' = Effects(m)
    /\ prev' = vec
    /\ last' = call
    /\ UNCHANGED <<str, saved, cpy, ledger>>

Reserve(ok) ==
    \E n \in 0..MaxCap :
        Returns(genVec_reserve(Frame(vec), n, ok), Call("reserve", 0, NULL, n, FALSE, ok))

Push(ok) ==
    \E e \in Elem :
        Returns(genVec_push(Frame(vec), e, ok), Call("push", 0, <<e>>, 1, FALSE, ok))

Pop(ok) ==
    \E popped \in BOOLEAN :
        Returns(genVec_pop(Frame(vec), popped, ok), Call("pop", 0, NULL, 0, popped, ok))

Get ==
    \E i \in Index(vec), out \in BOOLEAN :
        Returns(genVec_get(Frame(vec), i, out), Call("get", i, NULL, 0, out, TRUE))

Insert(ok) ==
    \E i \in Index(vec), e \in Elem \cup {NoArg} :
        Returns(genVec_insert(Frame(vec), i, e, ok),
                Call("insert", i, IF e = NoArg THEN NULL ELSE <<e>>, 1, FALSE, ok))

\* The caller's array holds num_data elements; or it is absent (NULL); or
\* the count passed is 0.
InsertMulti(ok) ==
    \E i \in Index(vec), data \in Multi :
        \E num_data \in (IF data = NULL THEN {1} ELSE {Len(data)})
                        \cup (IF data = <<1>> THEN {0} ELSE {}) :
            Returns(genVec_insert_multi(Frame(vec), i, data, num_data, ok),
                    Call("insert_multi", i, data, num_data, FALSE, ok))

Remove(ok) ==
    \E i \in Index(vec) :
        Returns(genVec_remove(Frame(vec), i, ok), Call("remove", i, NULL, 0, FALSE, ok))

Replace ==
    \E i \in Index(vec), e \in Elem \cup {NoArg} :
        Returns(genVec_replace(Frame(vec), i, e),
                Call("replace", i, IF e = NoArg THEN NULL ELSE <<e>>, 1, FALSE, TRUE))

Front ==
    Returns(genVec_front(Frame(vec)), Call("front", 0, NULL, 0, TRUE, TRUE))

Back ==
    Returns(genVec_back(Frame(vec)), Call("back", 0, NULL, 0, TRUE, TRUE))

Clear ==
    Returns(genVec_clear(Frame(vec)), Call("clear", 0, NULL, 0, FALSE, TRUE))

\* Every allocation succeeds.
Next ==
    \/ Reserve(TRUE)
    \/ Push(TRUE)
    \/ Pop(TRUE)
    \/ Get
    \/ Insert(TRUE)
    \/ InsertMulti(TRUE)
    \/ Remove(TRUE)
    \/ Replace
    \/ Front
    \/ Back
    \/ Clear
    \/ Forget

Spec == Init /\ [][Next]_vars

\* An allocation may fail.
NextAllocFail ==
    \/ \E ok \in BOOLEAN : Reserve(ok)
    \/ \E ok \in BOOLEAN : Push(ok)
    \/ \E ok \in BOOLEAN : Pop(ok)
    \/ \E ok \in BOOLEAN : Insert(ok)
    \/ \E ok \in BOOLEAN : InsertMulti(ok)
    \/ \E ok \in BOOLEAN : Remove(ok)
    \/ Replace
    \/ Clear
    \/ Forget

SpecAllocFail == Init /\ [][NextAllocFail]_vars

-----------------------------------------------------------------------------
(* String.c.  A String owns one genVec of bytes (data_size 1, no           *)
(* destructor).  The operators below act on the call frame of that buffer. *)
(* A C string argument is the sequence of the bytes at the pointer; where  *)
(* the sequence ends, the terminator of the caller's array follows.        *)
(* Every allocation a String operation makes succeeds.                     *)

Char == {0, 1, 2}               \* '\0' and two other byte values

\* The number of bytes before the first zero byte.
strlen(cstr) ==
    LET zeros == {k \in 1..Len(cstr) : cstr[k] = 0} IN
    IF zeros = {} THEN Len(cstr)
    ELSE (CHOOSE k \in zeros : \A j \in zeros : k <= j) - 1

string_len(m) == IF genVec_size(m) > 0 THEN genVec_size(m) - 1 ELSE 0

\* The bytes at the pointer string_to_cstr returns: the buffer's block, or ""
\* for an empty buffer.
string_to_cstr(m) == IF m.size = 0 THEN << >> ELSE m.data

\* Mutant: the terminator is pushed only on an empty buffer.
ensure_null_terminated_mut(m) ==
    IF m.size = 0 THEN genVec_push(m, 0, TRUE) ELSE m

ensure_null_terminated(m) ==
    IF m.size = 0 \/ m.data[m.size] # 0 THEN genVec_push(m, 0, TRUE) ELSE m

string_create_buffer == ensure_null_terminated(Frame(genVec_init(0, 1, FALSE, TRUE)))

string_append_cstr(m, cstr) ==
    LET cstr_len == strlen(cstr) IN
    IF cstr_len = 0 THEN m
    ELSE LET last_char == genVec_get(m, m.size - 1, TRUE).out
             t == IF m.size > 0 /\ last_char = 0
                  THEN [m EXCEPT !.size = m.size - 1] ELSE m
             write_pos == t.size
         IN ensure_null_terminated(genVec_insert_multi(t, write_pos, cstr, cstr_len, TRUE))

string_create_onstack(cstr) ==
    string_append_cstr(Frame(genVec_init(0, 1, FALSE, TRUE)), cstr)

string_from_cstr(cstr) == string_append_cstr(string_create_buffer, cstr)

string_from_string(other) == string_from_cstr(string_to_cstr(other))

string_reserve(m, capacity) ==
    ensure_null_terminated(genVec_reserve(m, capacity + 1, TRUE))

string_append_string(m, other) == string_append_cstr(m, string_to_cstr(other))

\* Mutant: the byte is pushed behind the terminator.
string_append_char_mut(m, c) ==
    ensure_null_terminated(genVec_push(m, c, TRUE))

string_append_char(m, c) ==
    LET p == IF m.size > 0 THEN [genVec_pop(m, FALSE, TRUE) EXCEPT !.ret = 0] ELSE m
    IN ensure_null_terminated(genVec_push(p, c, TRUE))

\* Mutant: the byte is inserted one position too far.
string_insert_char_mut(m, i, c) ==
    IF i >= string_len(m) THEN string_append_char(m, c)
    ELSE ensure_null_terminated(genVec_insert(m, i + 1, c, TRUE))

string_insert_char(m, i, c) ==
    IF i >= string_len(m) THEN string_append_char(m, c)
    ELSE ensure_null_terminated(genVec_insert(m, i, c, TRUE))

string_insert_cstr(m, i, cstr) ==
    IF i >= string_len(m) THEN string_append_cstr(m, cstr)
    ELSE ensure_null_terminated(genVec_insert_multi(m, i, cstr, strlen(cstr), TRUE))

string_insert_string(m, i, other) ==
    IF i >= string_len(m) THEN string_append_string(m, other)
    ELSE ensure_null_terminated(
            genVec_insert_multi(m, i, other.data, strlen(string_to_cstr(other)), TRUE))

string_remove_char(m, i) ==
    IF i >= string_len(m) THEN m
    ELSE ensure_null_terminated(genVec_remove(m, i, TRUE))

string_clear(m) == ensure_null_terminated(genVec_clear(m))

\* Mutant: the bounds check lets i = length through.
string_set_char_mut(m, i, c) ==
    IF i > string_len(m) THEN m ELSE genVec_replace(m, i, c)

string_set_char(m, i, c) ==
    IF i >= string_len(m) THEN m ELSE genVec_replace(m, i, c)

\* A NULL char pointer passed as a C string argument.
NoCstr == <<NoArg>>

\* The byte at offset k of a C string: past its bytes comes its terminator.
byte(cstr, k) == IF k < strlen(cstr) THEN cstr[k + 1] ELSE 0

\* Offsets stand for the pointers strchr and strstr return, -1 for NULL.  The
\* terminator is part of the string strchr searches.
strchr(cstr, c) ==
    LET hits == {k \in 0..strlen(cstr) : byte(cstr, k) = c} IN
    IF hits = {} THEN -1 ELSE CHOOSE k \in hits : \A j \in hits : k <= j

strstr(haystack, needle) ==
    LET n == strlen(needle)
        hits == {p \in 0..(strlen(haystack) - n) :
                    \A j \in 0..(n - 1) : byte(haystack, p + j) = byte(needle, j)}
    IN IF hits = {} THEN -1 ELSE CHOOSE p \in hits : \A q \in hits : p <= q

\* The int returned.
string_find_char(m, c) ==
    LET found == strchr(string_to_cstr(m), c) IN
    IF found # -1 THEN found ELSE -1

string_find_cstr(m, substr) ==
    IF substr = NoCstr THEN -1
    ELSE LET found == strstr(string_to_cstr(m), substr) IN
         IF found # -1 THEN found ELSE -1

\* size_t is an unsigned type of a fixed width: its arithmetic wraps at
\* SIZE_MAX + 1.  The model's size_t is narrow, so that the lengths near
\* SIZE_MAX are among the arguments tried.  No block of more than half the
\* address space can be allocated.
SIZE_MAX == 15

size_t(n) == n % (SIZE_MAX + 1)

\* The frame of the String returned (NoVec for NULL); str itself is only
\* read.  A copy that left the result's block ends the call: it is not
\* followed by ensure_null_terminated.
string_substr(m, start, length) ==
    IF start >= string_len(m) THEN NoVec
    ELSE LET result == string_create_buffer
             str_len == string_len(m)
             sum == size_t(start + length)
             end == IF sum > str_len THEN str_len ELSE sum
             actual_len == size_t(end - start)
         IN IF actual_len > 0
            THEN LET r == IF result.size > 0
                          THEN [result EXCEPT !.size = result.size - 1] ELSE result
                     src == slots(m, start, actual_len)
                     ins == genVec_insert_multi(r, 0, src, actual_len,
                                                actual_len <= SIZE_MAX \div 2)
                 IN IF ins.oob THEN ins ELSE ensure_null_terminated(ins)
            ELSE result

\* What a call that passes a String as its own `other` may meet (undefined
\* behaviour, so every outcome is possible): the realloc that grows the
\* block may move it (moved), the bytes then read through the pointer into
\* the freed block are anything (stale), and a memcpy between overlapping
\* ranges of the block may copy byte by byte from the low end (forward) or as
\* memmove does.
Aliased(n) ==
    {[moved |-> FALSE, forward |-> f, stale |-> << >>] : f \in BOOLEAN}
    \cup {[moved |-> TRUE, forward |-> FALSE, stale |-> st] : st \in [1..n -> Char]}

\* memcpy(dest, src, n) within one block.
memcpy_within(m, dest, src, n, forward) ==
    LET RECURSIVE loop(_, _)
        loop(f, k) == IF k < n THEN loop(memcpy(f, dest + k, slots(f, src + k, 1)), k + 1)
                      ELSE f
    IN IF forward THEN loop(m, 0) ELSE memcpy(m, dest, slots(m, src, n))

\* genVec_insert_multi(vec, i, data, num_data) where data is a pointer to
\* slot `src` of vec's own block, taken before the call.
genVec_insert_multi_alias(m, i, src, num_data, ub) ==
    IF m.data = NULL \/ num_data = 0 THEN m
    ELSE IF i > m.size THEN m
    ELSE LET elements_to_shift == m.size - i
             relocated == ub.moved /\ m.size + num_data > m.capacity
             r == genVec_reserve([m EXCEPT !.size = m.size + num_data],
                                 m.size + num_data, TRUE)
             s == IF elements_to_shift > 0
                  THEN memmove(r, i + num_data, i, elements_to_shift)
                  ELSE r
         IN IF relocated THEN memcpy(s, i, ub.stale)
            ELSE memcpy_within(s, i, src, num_data, ub.forward)

\* string_append_string(str, str).
string_append_self(m, ub) ==
    LET cstr == string_to_cstr(m)
        cstr_len == strlen(cstr)
    IN IF cstr_len = 0 THEN m
       ELSE LET last_char == genVec_get(m, m.size - 1, TRUE).out
                t == IF m.size > 0 /\ last_char = 0
                     THEN [m EXCEPT !.size = m.size - 1] ELSE m
                write_pos == t.size
            IN ensure_null_terminated(genVec_insert_multi_alias(t, write_pos, 0, cstr_len, ub))

\* string_insert_string(str, i, str).
string_insert_self(m, i, ub) ==
    IF i >= string_len(m) THEN string_append_self(m, ub)
    ELSE ensure_null_terminated(
            genVec_insert_multi_alias(m, i, 0, strlen(string_to_cstr(m)), ub))

-----------------------------------------------------------------------------
(* The String under test *)

MaxStrCap == 5      \* calls that would take the buffer's capacity beyond this are not made
MaxCStr == 2        \* C string arguments hold at most this many bytes

CStrs == UNION {[1..n -> Char \ {0}] : n \in 0..MaxCStr}
StrIndex(s) == 0..(string_len(s.buffer) + 1)

String(m) == [buffer |-> Struct(m)]

\* Another String, passed as `other`.
Others == {String(string_from_cstr(c)) : c \in CStrs}

InitString ==
    /\ str \in {String(string_create_buffer)}
                \cup {String(string_from_cstr(c)) : c \in CStrs}
                \cup {String(string_create_onstack(c)) : c \in CStrs}
    /\ vec = NoVec
    /\ prev = str
    /\ last = Call("create", 0, NULL, 0, FALSE, TRUE)
    /\ eff = NoEffect
    /\ saved = NoSnapshot
    /\ cpy = NoCopy
    /\ ledger = NoLedger

StrReturns(m, call) ==
    /\ Idle
    /\ m.capacity <= MaxStrCap
    /\ str' = String(m)
    /\ eff' = Effects(m)
    /\ prev' = str
    /\ last' = call
    /\ UNCHANGED <<vec, saved, cpy, ledger>>

\* A call that returns a new String and leaves str alone.
StrGives(res, call) ==
    /\ Idle
    /\ res # NoVec => res.capacity <= MaxStrCap
    /\ eff' = [NoEffect EXCEPT !.res = IF res = NoVec THEN NoVec ELSE String(res),
                                !.oob = res # NoVec /\ res.oob]
    /\ prev' = str
    /\ last' = call
    /\ UNCHANGED <<str, vec, saved, cpy, ledger>>

FromString ==
    StrGives(string_from_string(Frame(str.buffer)), Call("from_string", 0, NULL, 0, FALSE, TRUE))

StringReserve ==
    \E n \in 0..(MaxStrCap - 1) :
        StrReturns(string_reserve(Frame(str.buffer), n), Call("reserve", 0, NULL, n, FALSE, TRUE))

AppendCstr ==
    \E c \in CStrs :
        StrReturns(string_append_cstr(Frame(str.buffer), c),
                   Call("append_cstr", 0, c, 0, FALSE, TRUE))

AppendString ==
    \E o \in Others :
        StrReturns(string_append_string(Frame(str.buffer), Frame(o.buffer)),
                   Call("append_string", 0, Live(o.buffer), 0, FALSE, TRUE))

AppendChar ==
    \E c \in Char :
        StrReturns(string_append_char(Frame(str.buffer), c),
                   Call("append_char", 0, <<c>>, 0, FALSE, TRUE))

InsertChar ==
    \E i \in StrIndex(str), c \in Char :
        StrReturns(string_insert_char(Frame(str.buffer), i, c),
                   Call("insert_char", i, <<c>>, 0, FALSE, TRUE))

InsertCstr ==
    \E i \in StrIndex(str), c \in CStrs :
        StrReturns(string_insert_cstr(Frame(str.buffer), i, c),
                   Call("insert_cstr", i, c, 0, FALSE, TRUE))

InsertString ==
    \E i \in StrIndex(str), o \in Others :
        StrReturns(string_insert_string(Frame(str.buffer), i, Frame(o.buffer)),
                   Call("insert_string", i, Live(o.buffer), 0, FALSE, TRUE))

RemoveChar ==
    \E i \in StrIndex(str) :
        StrReturns(string_remove_char(Frame(str.buffer), i),
                   Call("remove_char", i, NULL, 0, FALSE, TRUE))

SetChar ==
    \E i \in StrIndex(str), c \in Char :
        StrReturns(string_set_char(Frame(str.buffer), i, c),
                   Call("set_char", i, <<c>>, 0, FALSE, TRUE))

StringClear ==
    StrReturns(string_clear(Frame(str.buffer)), Call("clear", 0, NULL, 0, FALSE, TRUE))

Substr ==
    \E start \in StrIndex(str), length \in 0..MaxStrCap :
        StrGives(string_substr(Frame(str.buffer), start, length),
                 Call("substr", start, NULL, length, FALSE, TRUE))

NextString ==
    \/ FromString
    \/ StringReserve
    \/ AppendCstr
    \/ AppendString
    \/ AppendChar
    \/ InsertChar
    \/ InsertCstr
    \/ InsertString
    \/ RemoveChar
    \/ SetChar
    \/ StringClear
    \/ Substr
    \/ Forget

SpecString == InitString /\ [][NextString]_vars

-----------------------------------------------------------------------------
(* The String under test, with the searches, the substring lengths near    *)
(* SIZE_MAX and the calls that pass str as its own `other`.                *)

StrAnswers(ret, call) ==
    /\ Idle
    /\ eff' = [NoEffect EXCEPT !.ret = ret]
    /\ prev' = str
    /\ last' = call
    /\ UNCHANGED <<str, vec, saved, cpy, ledger>>

FindChar ==
    \E c \in Char :
        StrAnswers(string_find_char(Frame(str.buffer), c),
                   Call("find_char", 0, <<c>>, 0, FALSE, TRUE))

FindCstr ==
    \E c \in CStrs \cup {NoCstr} :
        StrAnswers(string_find_cstr(Frame(str.buffer), c),
                   Call("find_cstr", 0, c, 0, FALSE, TRUE))

SubstrHuge ==
    \E start \in StrIndex(str), length \in (SIZE_MAX - MaxStrCap)..SIZE_MAX :
        StrGives(string_substr(Frame(str.buffer), start, length),
                 Call("substr", start, NULL, length, FALSE, TRUE))

\* Whether the call has to grow the block before it copies.
SelfGrows(b, i) ==
    LET n == strlen(string_to_cstr(b)) IN
    IF i >= string_len(b) THEN string_len(b) + n > b.capacity
    ELSE b.size + n > b.capacity

\* last.data holds the bytes read through a pointer into the freed block and
\* last.out tells whether the block was moved before the bytes were read.
AppendSelf ==
    \E ub \in Aliased(strlen(string_to_cstr(Frame(str.buffer)))) :
        StrReturns(string_append_self(Frame(str.buffer), ub),
                   Call("append_self", string_len(str.buffer), ub.stale, 0,
                        ub.moved /\ SelfGrows(Frame(str.buffer), string_len(str.buffer)),
                        ~ub.forward))

InsertSelf ==
    \E i \in StrIndex(str), ub \in Aliased(strlen(string_to_cstr(Frame(str.buffer)))) :
        StrReturns(string_insert_self(Frame(str.buffer), i, ub),
                   Call("insert_self", i, ub.stale, 0,
                        ub.moved /\ SelfGrows(Frame(str.buffer), i), ~ub.forward))

NextStringFull ==
    \/ NextString
    \/ FindChar
    \/ FindCstr
    \/ SubstrHuge
    \/ AppendSelf
    \/ InsertSelf

SpecStringFull == InitString /\ [][NextStringFull]_vars

-----------------------------------------------------------------------------
(* remove(i) followed immediately by insert(i, v), v the value removed, on *)
(* a vector without a destructor.  saved holds the vector as it was before *)
(* the remove: phase 1 after the remove, phase 2 after the insert.         *)

RemoveThen ==
    /\ Idle
    /\ saved.phase = 0
    /\ ~vec.del_fn
    /\ \E i \in 0..(vec.size - 1) :
        LET m == genVec_remove(Frame(vec), i, TRUE) IN
        /\ vec' = Struct(m)
        /\ eff' = Effects(m)
        /\ prev' = vec
        /\ last' = Call("remove", i, NULL, 0, FALSE, TRUE)
        /\ saved' = [phase |-> 1, vec |-> vec, i |-> i]
    /\ UNCHANGED <<str, cpy, ledger>>

InsertBack ==
    /\ saved.phase = 1
    /\ LET v == saved.vec.data[saved.i + 1]
           m == genVec_insert(Frame(vec), saved.i, v, TRUE) IN
        /\ m.capacity <= MaxCap
        /\ vec' = Struct(m)
        /\ eff' = Effects(m)
        /\ prev' = vec
        /\ last' = Call("insert", saved.i, <<v>>, 1, FALSE, TRUE)
        /\ saved' = [saved EXCEPT !.phase = 2]
    /\ UNCHANGED <<str, cpy, ledger>>

NextRoundTrip ==
    \/ Reserve(TRUE)
    \/ Push(TRUE)
    \/ Pop(TRUE)
    \/ InsertMulti(TRUE)
    \/ Clear
    \/ Forget
    \/ RemoveThen
    \/ InsertBack

SpecRoundTrip == Init /\ [][NextRoundTrip]_vars

-----------------------------------------------------------------------------
(* Construction and destruction.  The program starts without a vector,     *)
(* creates one (or fails to), uses it and destroys it.  last.i holds the   *)
(* data_size passed to the constructor.                                    *)

InitNone ==
    /\ vec = NoVec
    /\ str = NoVec
    /\ prev = NoVec
    /\ last = NoCall
    /\ eff = NoEffect
    /\ saved = NoSnapshot
    /\ cpy = NoCopy
    /\ ledger = NoLedger

Created(v, call) ==
    /\ Idle
    /\ vec = NoVec
    /\ vec' = v
    /\ eff' = [NoEffect EXCEPT !.res = v]
    /\ prev' = vec
    /\ last' = call
    /\ UNCHANGED <<str, saved, cpy, ledger>>

Create(ok) ==
    \E n \in 0..MaxInitCap, data_size \in {0, 1}, del_fn \in BOOLEAN :
        Created(genVec_init(n, data_size, del_fn, ok),
                Call("init", data_size, NULL, n, FALSE, ok))

CreateVal(ok) ==
    \E n \in 0..MaxInitCap, val \in Elem \cup {NoArg}, data_size \in {0, 1}, del_fn \in BOOLEAN :
        Created(genVec_init_val(n, val, data_size, del_fn, ok),
                Call("init_val", data_size, IF val = NoArg THEN NULL ELSE <<val>>, n, FALSE, ok))

Destroy ==
    /\ Idle
    /\ vec # NoVec
    /\ vec' = NoVec
    /\ eff' = Effects(genVec_destroy(Frame(vec)))
    /\ prev' = vec
    /\ last' = Call("destroy", 0, NULL, 0, FALSE, TRUE)
    /\ UNCHANGED <<str, saved, cpy, ledger>>

NextCreate ==
    \/ \E ok \in BOOLEAN : Create(ok)
    \/ \E ok \in BOOLEAN : CreateVal(ok)
    \/ vec # NoVec /\ Push(TRUE)
    \/ vec # NoVec /\ Pop(TRUE)
    \/ Destroy
    \/ Forget

SpecCreate == InitNone /\ [][NextCreate]_vars

-----------------------------------------------------------------------------
(* The lifetime of the elements of a vector with a destructor.  Every      *)
(* element stored is a value of its own (ledger.next counts them), so the  *)
(* value the destructor is called on tells which stored element it was.    *)
(* No copy of the vector is taken; every allocation succeeds; the lifetime *)
(* ends with genVec_destroy.                                               *)

MaxStored == 4      \* at most this many elements are stored over the lifetime

InitLife ==
    /\ vec \in {genVec_init(n, 1, TRUE, TRUE) : n \in 0..MaxInitCap}
    /\ str = NoVec
    /\ prev = vec
    /\ last = Call("init", 0, NULL, 0, FALSE, TRUE)
    /\ eff = NoEffect
    /\ saved = NoSnapshot
    /\ cpy = NoCopy
    /\ ledger = NoLedger

\* The ledger after a call with frame m that stored k new elements.
Recorded(m, k) ==
    [next |-> ledger.next + k,
     destroyed |-> ledger.destroyed \o [j \in 1..Len(m.dlog) |-> m.dlog[j][2]],
     handed |-> ledger.handed \cup (IF m.out = Untouched THEN {} ELSE {m.out})]

Owned(m, call, k) ==
    /\ Idle
    /\ vec # NoVec
    /\ m.capacity <= MaxCap
    /\ ledger.next + k - 1 <= MaxStored
    /\ vec' = Struct(m)
    /\ eff' = Effects(m)
    /\ prev' = vec
    /\ last' = call
    /\ ledger' = Recorded(m, k)
    /\ UNCHANGED <<str, saved, cpy>>

OwnedPush ==
    Owned(genVec_push(Frame(vec), ledger.next, TRUE),
          Call("push", 0, <<ledger.next>>, 1, FALSE, TRUE), 1)

OwnedInsert ==
    \E i \in 0..genVec_size(vec) :
        Owned(genVec_insert(Frame(vec), i, ledger.next, TRUE),
              Call("insert", i, <<ledger.next>>, 1, FALSE, TRUE), 1)

OwnedInsertMulti ==
    \E i \in 0..genVec_size(vec) :
        LET data == <<ledger.next, ledger.next + 1>> IN
        Owned(genVec_insert_multi(Frame(vec), i, data, 2, TRUE),
              Call("insert_multi", i, data, 2, FALSE, TRUE), 2)

OwnedReplace ==
    \E i \in 0..(genVec_size(vec) - 1) :
        Owned(genVec_replace(Frame(vec), i, ledger.next),
              Call("replace", i, <<ledger.next>>, 1, FALSE, TRUE), 1)

OwnedRemove ==
    \E i \in 0..(genVec_size(vec) - 1) :
        Owned(genVec_remove(Frame(vec), i, TRUE), Call("remove", i, NULL, 0, FALSE, TRUE), 0)

OwnedPop ==
    \E popped \in BOOLEAN :
        Owned(genVec_pop(Frame(vec), popped, TRUE), Call("pop", 0, NULL, 0, popped, TRUE), 0)

OwnedClear ==
    Owned(genVec_clear(Frame(vec)), Call("clear", 0, NULL, 0, FALSE, TRUE), 0)

OwnedDestroy ==
    /\ Idle
    /\ vec # NoVec
    /\ LET m == genVec_destroy(Frame(vec)) IN
        /\ eff' = Effects(m)
        /\ ledger' = Recorded(m, 0)
    /\ vec' = NoVec
    /\ prev' = vec
    /\ last' = Call("destroy", 0, NULL, 0, FALSE, TRUE)
    /\ UNCHANGED <<str, saved, cpy>>

NextLife ==
    \/ OwnedPush
    \/ OwnedInsert
    \/ OwnedInsertMulti
    \/ OwnedReplace
    \/ OwnedRemove
    \/ OwnedPop
    \/ OwnedClear
    \/ OwnedDestroy
    \/ Forget

SpecLife == InitLife /\ [][NextLife]_vars

-----------------------------------------------------------------------------
(* A vector and its copy.  vec is built up, genVec_copy(vec) is taken once *)
(* and held in cpy, and from then on the program mutates either of the     *)
(* two.  A call on one vector writes, reallocates or frees the block its   *)
(* data pointer names; the other vector sees that only if its data pointer *)
(* names the same block (cpy.shared).  prev holds both vectors as they     *)
(* were when the call was made and the side the call was made on.          *)

MaxCopyCap == 3     \* neither vector is taken beyond this capacity

Sides == IF cpy.vec = NoVec THEN {"vec"} ELSE {"vec", "cpy"}

Target(on) == IF on = "vec" THEN vec ELSE cpy.vec

\* The vector `other`, whose data pointer names the block the call with frame
\* m worked on: its own fields are as they were, the block's slots are those
\* the call left.
View(other, m) == [other EXCEPT !.data = realloc(m.data, other.capacity)]

Mutated(on, m, call) ==
    /\ Idle
    /\ m.capacity <= MaxCopyCap
    /\ vec' = IF on = "vec" THEN Struct(m)
              ELSE IF cpy.shared THEN View(vec, m) ELSE vec
    /\ cpy' = IF on = "cpy" THEN [cpy EXCEPT !.vec = Struct(m)]
              ELSE IF cpy.shared THEN [cpy EXCEPT !.vec = View(cpy.vec, m)] ELSE cpy
    /\ eff' = Effects(m)
    /\ prev' = [vec |-> vec, cpy |-> cpy.vec, on |-> on]
    /\ last' = call
    /\ UNCHANGED <<str, saved, ledger>>

Copy(ok) ==
    /\ Idle
    /\ cpy = NoCopy
    /\ cpy' = genVec_copy(Frame(vec), ok)
    /\ eff' = [NoEffect EXCEPT !.res = cpy'.vec]
    /\ prev' = [vec |-> vec, cpy |-> NoVec, on |-> "vec"]
    /\ last' = Call("copy", 0, NULL, 0, FALSE, ok)
    /\ UNCHANGED <<vec, str, saved, ledger>>

EitherPush ==
    \E on \in Sides, e \in Elem :
        Mutated(on, genVec_push(Frame(Target(on)), e, TRUE),
                Call("push", 0, <<e>>, 1, FALSE, TRUE))

EitherPop ==
    \E on \in Sides, popped \in BOOLEAN :
        Mutated(on, genVec_pop(Frame(Target(on)), popped, TRUE),
                Call("pop", 0, NULL, 0, popped, TRUE))

EitherInsert ==
    \E on \in Sides, e \in Elem :
        \E i \in 0..Target(on).size :
            Mutated(on, genVec_insert(Frame(Target(on)), i, e, TRUE),
                    Call("insert", i, <<e>>, 1, FALSE, TRUE))

EitherRemove ==
    \E on \in Sides :
        \E i \in 0..(Target(on).size - 1) :
            Mutated(on, genVec_remove(Frame(Target(on)), i, TRUE),
                    Call("remove", i, NULL, 0, FALSE, TRUE))

EitherReplace ==
    \E on \in Sides, e \in Elem :
        \E i \in 0..(Target(on).size - 1) :
            Mutated(on, genVec_replace(Frame(Target(on)), i, e),
                    Call("replace", i, <<e>>, 1, FALSE, TRUE))

EitherReserve ==
    \E on \in Sides, n \in 0..MaxCopyCap :
        Mutated(on, genVec_reserve(Frame(Target(on)), n, TRUE),
                Call("reserve", 0, NULL, n, FALSE, TRUE))

EitherClear ==
    \E on \in Sides :
        Mutated(on, genVec_clear(Frame(Target(on))), Call("clear", 0, NULL, 0, FALSE, TRUE))

NextCopy ==
    \/ \E ok \in BOOLEAN : Copy(ok)
    \/ EitherPush
    \/ EitherPop
    \/ EitherInsert
    \/ EitherRemove
    \/ EitherReplace
    \/ EitherReserve
    \/ EitherClear
    \/ Forget

SpecCopy == Init /\ [][NextCopy]_vars

-----------------------------------------------------------------------------
(* Two calls in a row: a push followed immediately by a pop, and a pop or  *)
(* a remove followed immediately by a push.  saved holds the vector as it  *)
(* was before the first call (phase 1 after the first call, phase 2 after  *)
(* the second); prev holds it as it was between the two.  Every allocation *)
(* succeeds.                                                               *)

First(m, call) ==
    /\ Idle
    /\ saved.phase = 0
    /\ m.capacity <= MaxCap
    /\ vec' = Struct(m)
    /\ eff' = Effects(m)
    /\ prev' = vec
    /\ last' = call
    /\ saved' = [phase |-> 1, vec |-> vec, i |-> call.i]
    /\ UNCHANGED <<str, cpy, ledger>>

Second(m, call) ==
    /\ saved.phase = 1
    /\ m.capacity <= MaxCap
    /\ vec' = Struct(m)
    /\ eff' = Effects(m)
    /\ prev' = vec
    /\ last' = call
    /\ saved' = [saved EXCEPT !.phase = 2]
    /\ UNCHANGED <<str, cpy, ledger>>

PushThen ==
    \E e \in Elem :
        First(genVec_push(Frame(vec), e, TRUE), Call("push", 0, <<e>>, 1, FALSE, TRUE))

PopThen ==
    \E popped \in BOOLEAN :
        First(genVec_pop(Frame(vec), popped, TRUE), Call("pop", 0, NULL, 0, popped, TRUE))

RemoveFirst ==
    \E i \in 0..(vec.size - 1) :
        First(genVec_remove(Frame(vec), i, TRUE), Call("remove", i, NULL, 0, FALSE, TRUE))

PopAfter ==
    /\ last.op = "push"
    /\ \E popped \in BOOLEAN :
        Second(genVec_pop(Frame(vec), popped, TRUE), Call("pop", 0, NULL, 0, popped, TRUE))

PushAfter ==
    /\ last.op \in {"pop", "remove"}
    /\ \E e \in Elem :
        Second(genVec_push(Frame(vec), e, TRUE), Call("push", 0, <<e>>, 1, FALSE, TRUE))

NextTwoCalls ==
    \/ Reserve(TRUE)
    \/ Push(TRUE)
    \/ Pop(TRUE)
    \/ Remove(TRUE)
    \/ Clear
    \/ Forget
    \/ PushThen
    \/ PopThen
    \/ RemoveFirst
    \/ PopAfter
    \/ PushAfter

SpecTwoCalls == Init /\ [][NextTwoCalls]_vars

-----------------------------------------------------------------------------
(* Properties of the generic vector *)

\* The last call was a push, insert or insert_multi that passed its argument
\* checks.
ValidPush == last.op = "push"
ValidInsert == last.op = "insert" /\ last.data # NULL /\ last.i <= prev.size
ValidInsertMulti ==
    last.op = "insert_multi" /\ last.data # NULL /\ last.n > 0 /\ last.i <= prev.size
ValidPop == last.op = "pop" /\ prev.size > 0
ValidRemove == last.op = "remove" /\ last.i < prev.size

\* C1: when every allocation succeeds, 0 <= size <= capacity holds after
\* every operation of the vector returns (and after init / init_val).
C1_SizeWithinCapacity == 0 <= vec.size /\ vec.size <= vec.capacity

\* C1 witness: an insert_multi has grown the storage to exactly the new size.
C1_Witness ==
    /\ ValidInsertMulti
    /\ vec.capacity > prev.capacity
    /\ vec.size = vec.capacity
    /\ prev.size > 0

\* The call needed the storage to grow.
GrowthNeeded ==
    \/ ValidPush /\ prev.size >= prev.capacity
    \/ ValidInsert /\ prev.size >= prev.capacity
    \/ ValidInsertMulti /\ prev.size + last.n > prev.capacity

\* C2: a push, insert or insert_multi whose growing reallocation fails has
\* no effect: the vector is exactly as before the call and no slot at an
\* index >= capacity is written.
C2_FailedGrowthNoEffect ==
    (GrowthNeeded /\ ~last.ok) => (vec = prev /\ ~eff.oob)

\* C5: a push or a single-element insert at i < size on a full vector sets
\* the capacity to capacity + 1 when capacity < 4 and to floor(capacity * 1.5)
\* otherwise; on a vector with size < capacity it leaves the capacity alone.
C5_GrowthPolicy ==
    (ValidPush \/ (ValidInsert /\ last.i < prev.size)) =>
        IF prev.size = prev.capacity
        THEN vec.capacity = IF prev.capacity < 4 THEN prev.capacity + 1
                            ELSE (3 * prev.capacity) \div 2
        ELSE prev.size < prev.capacity /\ vec.capacity = prev.capacity

\* C5 witness: an insert below size on a full vector of capacity >= 4.
C5_Witness ==
    /\ ValidInsert
    /\ last.i < prev.size
    /\ prev.size = prev.capacity
    /\ prev.capacity >= 4
    /\ vec.capacity > prev.capacity + 1

\* C6: a pop or remove that leaves size <= capacity * 0.25 sets the capacity
\* to floor(capacity * 0.5), unless that target is 0 or smaller than size;
\* a pop or remove that leaves size > capacity * 0.25 leaves it unchanged.
C6_ShrinkPolicy ==
    (ValidPop \/ ValidRemove) =>
        LET target == prev.capacity \div 2 IN
        /\ vec.size = prev.size - 1
        /\ IF 4 * vec.size <= prev.capacity /\ target # 0 /\ target >= vec.size
           THEN vec.capacity = target
           ELSE vec.capacity = prev.capacity

\* C6 witness: a remove has shrunk the storage of a vector that keeps elements.
C6_Witness ==
    /\ ValidRemove
    /\ vec.capacity < prev.capacity
    /\ vec.size > 0

\* C7: the capacity after push, insert, insert_multi or reserve is never
\* below the capacity before the call, whatever the arguments.
C7_GrowthMonotone ==
    last.op \in {"push", "insert", "insert_multi", "reserve"} =>
        vec.capacity >= prev.capacity

\* C7 witness: reserve was asked for less than the vector already has.
C7_Witness ==
    /\ last.op = "reserve"
    /\ last.n < prev.capacity
    /\ prev.size > 0

\* C8: insert yields old[0..i) ++ [e] ++ old[i..size), insert_multi yields
\* old[0..i) ++ es ++ old[i..size) and remove yields old[0..i) ++ old[i+1..size),
\* also when the call grows or shrinks the storage.
C8_InsertRemoveContent ==
    LET old == Live(prev)
        lo == SubSeq(old, 1, last.i)
    IN /\ ValidInsert =>
            Live(vec) = lo \o last.data \o SubSeq(old, last.i + 1, prev.size)
       /\ ValidInsertMulti =>
            Live(vec) = lo \o SubSeq(last.data, 1, last.n)
                           \o SubSeq(old, last.i + 1, prev.size)
       /\ ValidRemove =>
            Live(vec) = lo \o SubSeq(old, last.i + 2, prev.size)

\* C8 witness: an insert_multi in the middle that had to grow the storage and
\* moved at least two elements over a gap shorter than the moved range.
C8_Witness ==
    /\ ValidInsertMulti
    /\ vec.capacity > prev.capacity
    /\ last.i > 0
    /\ prev.size - last.i >= 2
    /\ last.n < prev.size - last.i

\* C9: on a vector without a destructor, remove(i) followed immediately by
\* insert(i, v), v being the value that was at i, restores the element
\* sequence and the size.
C9_RemoveInsertRoundTrip ==
    saved.phase = 2 =>
        /\ vec.size = saved.vec.size
        /\ Live(vec) = Live(saved.vec)

\* C9 witness: a round trip below the last element whose remove shrank the
\* storage, so that the capacity differs afterwards.
C9_Witness ==
    /\ saved.phase = 2
    /\ saved.i < saved.vec.size - 1
    /\ vec.capacity # saved.vec.capacity

\* The last call was one the vector must reject.
Rejected ==
    \/ last.op \in {"get", "replace", "remove"} /\ last.i >= prev.size
    \/ last.op \in {"insert", "insert_multi"} /\ last.i > prev.size
    \/ last.op \in {"pop", "front", "back"} /\ prev.size = 0

\* C10: an out-of-range get, replace, remove, insert or insert_multi and a
\* pop, front or back on an empty vector change nothing: the vector is as
\* before, no destructor runs, the out buffer is not written, pop returns -1.
C10_RejectedNoChange ==
    Rejected =>
        /\ vec = prev
        /\ eff.dlog = << >>
        /\ eff.out = Untouched
        /\ ~eff.oob
        /\ last.op = "pop" => eff.ret = -1

\* C10 witness: replace at i = size on a vector that has a destructor and
\* room after its last element.
C10_Witness ==
    /\ last.op = "replace"
    /\ last.data # NULL
    /\ last.i = prev.size
    /\ prev.del_fn
    /\ prev.size > 0
    /\ prev.size < prev.capacity

\* C11: genVec_init_val(n, val, data_size, del_fn) with n > 0 and val present
\* returns a vector with size = capacity = n whose every element equals val;
\* with val absent or with n = 0 it returns NULL and no vector exists.
C11_InitVal ==
    last.op = "init_val" =>
        IF last.data = NULL \/ last.n = 0 THEN eff.res = NoVec /\ vec = NoVec
        ELSE (last.i > 0 /\ last.ok) =>
                /\ vec # NoVec
                /\ vec.size = last.n
                /\ vec.capacity = last.n
                /\ \A k \in 1..last.n : vec.data[k] = last.data[1]

\* C13: on a vector with a destructor holding n live elements, genVec_destroy
\* calls the destructor n times: on the elements at index 0, 1, ..., n-1 in
\* this order, once each, and on no slot at an index >= size.
C13_DestroyOrder ==
    (last.op = "destroy" /\ prev.del_fn) =>
        eff.dlog = [k \in 1..prev.size |-> <<k - 1, prev.data[k]>>]

\* A vector of two or more elements is destroyed whose block holds, beyond
\* size, a slot with an element that was stored earlier.
C13_Witness ==
    /\ last.op = "destroy"
    /\ prev.del_fn
    /\ prev.size >= 2
    /\ prev.capacity > prev.size
    /\ prev.data[prev.size + 1] # U

\* The number of destructor invocations on the stored element id.
Invocations(id) ==
    Cardinality({j \in 1..Len(ledger.destroyed) : ledger.destroyed[j] = id})

\* The elements stored so far.
Stored == 1..(ledger.next - 1)

\* C19: over a lifetime of push, insert, insert_multi, replace, remove, pop
\* and clear ended by destroy, the destructor is never invoked twice on a
\* stored element and never on an element a pop handed to the caller; once
\* the vector is destroyed it was invoked exactly once on every other element
\* that was ever stored.
C19_DestroyedOnce ==
    /\ \A id \in Stored :
        /\ Invocations(id) <= 1
        /\ id \in ledger.handed => Invocations(id) = 0
    /\ \A j \in 1..Len(ledger.destroyed) : ledger.destroyed[j] \in Stored
    /\ vec = NoVec =>
        \A id \in Stored \ ledger.handed : Invocations(id) = 1

\* A destroyed vector: elements were stored, one was handed out by a pop, one
\* was destroyed before the end and one by genVec_destroy itself.
C19_Witness ==
    /\ vec = NoVec
    /\ last.op = "destroy"
    /\ eff.dlog # << >>
    /\ ledger.handed # {}
    /\ Len(ledger.destroyed) > Len(eff.dlog)

\* Two vectors with the same size, capacity and live elements.
SameVector(v, w) ==
    v.size = w.size /\ v.capacity = w.capacity /\ Live(v) = Live(w)

\* C12: genVec_copy(vec) returns a vector with the size, data_size and
\* elements of vec and leaves vec as it was; from then on a push, pop, insert,
\* remove, replace, reserve or clear on the copy leaves size, capacity and
\* elements of vec unchanged, and one on vec leaves those of the copy
\* unchanged.
C12_CopyIndependence ==
    /\ (last.op = "copy" /\ last.ok) =>
        /\ cpy.vec # NoVec
        /\ cpy.vec.size = vec.size
        /\ cpy.vec.data_size = vec.data_size
        /\ Live(cpy.vec) = Live(vec)
        /\ SameVector(vec, prev.vec)
    /\ (~Idle /\ cpy.vec # NoVec /\ last.op # "copy") =>
        /\ prev.on = "cpy" => SameVector(vec, prev.vec)
        /\ prev.on = "vec" => SameVector(cpy.vec, prev.cpy)

\* A live element of the copy was replaced while the source holds elements,
\* and the source was mutated while the copy holds elements.
C12_Witness ==
    /\ ~Idle
    /\ cpy.vec # NoVec
    /\ last.op = "replace"
    /\ prev.on = "cpy"
    /\ Live(cpy.vec) # Live(prev.cpy)
    /\ vec.size > 0
    /\ vec.capacity # cpy.vec.capacity

-----------------------------------------------------------------------------
(* Properties of the String *)

\* A non-empty buffer ends with the terminator, and string_len is size - 1.
Terminated(s) ==
    s.buffer.size > 0 =>
        /\ s.buffer.data[s.buffer.size] = 0
        /\ string_len(s.buffer) = s.buffer.size - 1

\* C3: after every public String operation returns (allocations succeeding),
\* a non-empty buffer has the zero terminator as its last stored byte and
\* string_len equals the buffer size minus 1; this holds of the string the
\* call worked on and of the string it returned.
C3_TerminatorInvariant ==
    /\ Terminated(str)
    /\ eff.res # NoVec => Terminated(eff.res)

\* C3 witness: an insert_char below the length has returned, on a buffer it
\* had to grow.
C3_Witness ==
    /\ last.op = "insert_char"
    /\ last.i < string_len(prev.buffer)
    /\ str.buffer.capacity > prev.buffer.capacity
    /\ str.buffer.size = prev.buffer.size + 1

\* The number of zero bytes stored below the length.
EmbeddedZeros(s) ==
    Cardinality({k \in 1..string_len(s.buffer) : s.buffer.data[k] = 0})

\* C4: a mutating String operation other than set_char stores no zero byte
\* below the length, whatever its arguments (the byte 0 included): the zero
\* bytes below the length after the call are at most those before it, so a
\* string without one still reads as exactly string_len bytes.
C4_NoEmbeddedTerminator ==
    last.op \in {"append_char", "append_cstr", "append_string", "insert_char",
                 "insert_cstr", "insert_string", "remove_char", "clear"}
        => EmbeddedZeros(str) <= EmbeddedZeros(prev)


\* The logical content: the bytes before the trailing terminator.
Content(s) == SubSeq(s.buffer.data, 1, string_len(s.buffer))

\* C14, as claimed: for every byte c, 0 included, string_append_char(str, c)
\* makes the content the old content followed by c (length + 1, c at the old
\* length), with the terminator behind it.
C14_AppendAnyByte ==
    last.op = "append_char" =>
        /\ Content(str) = Content(prev) \o last.data
        /\ string_len(str.buffer) = string_len(prev.buffer) + 1
        /\ Terminated(str)

\* C14, amended: for every byte c other than 0, string_append_char(str, c)
\* makes the content the old content followed by c (length + 1, c at the old
\* length), with the terminator behind it; string_append_char(str, 0) leaves
\* content and length as they were, with the terminator behind the content.
C14_AppendByte ==
    last.op = "append_char" =>
        /\ Terminated(str)
        /\ IF last.data[1] # 0
           THEN /\ Content(str) = Content(prev) \o last.data
                /\ string_len(str.buffer) = string_len(prev.buffer) + 1
                /\ str.buffer.data[string_len(prev.buffer) + 1] = last.data[1]
           ELSE /\ Content(str) = Content(prev)
                /\ string_len(str.buffer) = string_len(prev.buffer)

\* A non-zero byte was appended to a string of two or more bytes, and the
\* buffer grew.
C14_Witness ==
    /\ last.op = "append_char"
    /\ last.data[1] # 0
    /\ string_len(prev.buffer) >= 2
    /\ str.buffer.capacity > prev.buffer.capacity

\* C15: string_insert_char(str, i, c) with i < length makes the content
\* old[0..i) c old[i..length), length + 1; with i >= length it does what
\* string_append_char(str, c) does; string_remove_char(str, i) with i < length
\* makes the content old[0..i) old[i+1..length), length - 1; after each of
\* them the buffer is the content and one terminator (size = length + 1).
C15_InsertRemoveByte ==
    LET len == string_len(prev.buffer)
        old == Content(prev)
    IN /\ (last.op = "insert_char" /\ last.i < len) =>
            /\ Content(str) = SubSeq(old, 1, last.i) \o last.data \o SubSeq(old, last.i + 1, len)
            /\ string_len(str.buffer) = len + 1
       /\ (last.op = "insert_char" /\ last.i >= len) =>
            str = String(string_append_char(Frame(prev.buffer), last.data[1]))
       /\ (last.op = "remove_char" /\ last.i < len) =>
            /\ Content(str) = SubSeq(old, 1, last.i) \o SubSeq(old, last.i + 2, len)
            /\ string_len(str.buffer) = len - 1
       /\ (last.op = "insert_char" \/ (last.op = "remove_char" /\ last.i < len)) =>
            /\ str.buffer.size = string_len(str.buffer) + 1
            /\ str.buffer.data[str.buffer.size] = 0

\* A byte was inserted inside a string, neither at its front nor at its end.
C15_Witness ==
    /\ last.op = "insert_char"
    /\ last.i > 0
    /\ last.i < string_len(prev.buffer) - 1
    /\ last.data[1] # prev.buffer.data[last.i + 1]

\* C18: string_set_char(str, i, c) with i < length changes byte i and nothing
\* else (size, capacity, the other bytes and the terminator stay); with
\* i >= length, i = length included, it changes nothing.
C18_SetByte ==
    last.op = "set_char" =>
        IF last.i < string_len(prev.buffer)
        THEN /\ str.buffer.size = prev.buffer.size
             /\ str.buffer.capacity = prev.buffer.capacity
             /\ str.buffer.data[last.i + 1] = last.data[1]
             /\ \A k \in 1..Len(prev.buffer.data) :
                    k # last.i + 1 => str.buffer.data[k] = prev.buffer.data[k]
             /\ str.buffer.data[str.buffer.size] = 0
        ELSE str = prev

\* The last byte of a string of two or more bytes was overwritten with
\* another value.
C18_Witness ==
    /\ last.op = "set_char"
    /\ string_len(prev.buffer) >= 2
    /\ last.i = string_len(prev.buffer) - 1
    /\ str # prev

\* The offset of the first occurrence of the bytes `needle` in the bytes
\* `content`, -1 if there is none or the needle is empty.
FirstIn(content, needle) ==
    LET n == Len(needle)
        hits == {p \in 0..(Len(content) - n) :
                    \A j \in 1..n : content[p + j] = needle[j]}
    IN IF n = 0 \/ hits = {} THEN -1 ELSE CHOOSE p \in hits : \A q \in hits : p <= q

\* C17: string_find_char and string_find_cstr return the index of the first
\* occurrence within the logical content (an index < length), or -1 when
\* there is none: for every byte, 0 included, and for every needle, the empty
\* and the absent one (both not found) included.
C17_Find ==
    /\ last.op = "find_char" =>
        /\ eff.ret = FirstIn(Content(str), last.data)
        /\ eff.ret < string_len(str.buffer)
    /\ last.op = "find_cstr" =>
        /\ eff.ret = IF last.data = NoCstr THEN -1 ELSE FirstIn(Content(str), last.data)
        /\ eff.ret < string_len(str.buffer)

\* C16: for every start < length and every length argument of size_t,
\* string_substr returns a new String with the bytes [start,
\* min(start + length, length of str)) of str's content and leaves str as it
\* was; with start >= length it returns NULL.
C16_Substr ==
    last.op = "substr" =>
        LET len == string_len(prev.buffer)
            stop == IF last.i + last.n < len THEN last.i + last.n ELSE len
        IN /\ str = prev
           /\ IF last.i >= len THEN eff.res = NoVec
              ELSE /\ eff.res # NoVec
                   /\ ~eff.oob
                   /\ Content(eff.res) = SubSeq(Content(prev), last.i + 1, stop)

\* C20: when the block is moved by the growth, string_append_string(str, str)
\* makes the content the old content twice, and string_insert_string(str, i,
\* str) the old content with a copy of itself inserted at i: the bytes copied
\* are never read through the pointer into the block that was freed.
C20_SelfAppendInsert ==
    LET old == Content(prev)
        len == string_len(prev.buffer)
    IN /\ (last.op = "append_self" /\ last.out) => Content(str) = old \o old
       /\ (last.op = "insert_self" /\ last.out) =>
            Content(str) = IF last.i >= len THEN old \o old
                           ELSE SubSeq(old, 1, last.i) \o old \o SubSeq(old, last.i + 1, len)

\* C21: string_append_char never decreases the capacity of the buffer; so
\* once string_reserve(str, n) has made the capacity >= n + 1, it stays
\* >= n + 1 over any sequence of string_append_char calls.
C21_AppendKeepsCapacity ==
    last.op = "append_char" => str.buffer.capacity >= prev.buffer.capacity

\* C22: a pop that immediately follows a push which grew the capacity leaves
\* the capacity as the push left it, and a push that immediately follows a
\* pop or a remove which shrank the capacity leaves the capacity as that call
\* left it.
C22_NoOscillation ==
    saved.phase = 2 =>
        /\ (last.op = "pop" /\ prev.capacity > saved.vec.capacity) =>
                vec.capacity = prev.capacity
        /\ (last.op = "push" /\ prev.capacity < saved.vec.capacity) =>
                vec.capacity = prev.capacity

\* A push was made right after a pop or remove that shrank the block of a
\* vector that still holds an element.
C22_Witness ==
    /\ saved.phase = 2
    /\ last.op = "push"
    /\ prev.capacity < saved.vec.capacity
    /\ prev.size > 0
    /\ vec.capacity = prev.capacity

====
